---------------------------- MODULE Spec2Model ----------------------------
(***************************************************************************)
(* A model of the pysnyk client library: the manager layer of              *)
(* snyk/managers.py (ProjectManager, DependencyManager, the generic        *)
(* Manager), the single-attempt verbs of pysnyk/client.py, and the         *)
(* retrying, versioning transport that the managers and snyk/test_client.py*)
(* call.                                                                   *)
(*                                                                         *)
(* Every manager method is a pure function of the server's state and the   *)
(* caller's arguments, so each is an operator that returns what the method *)
(* returns or raises together with the log of the calls it made on the     *)
(* client; one action per method applies it and stores that outcome.       *)
(***************************************************************************)
EXTENDS Integers, Sequences, FiniteSets, TLC

VARIABLES
    pages,      \* server: for each organization id, its project pages in chain order
    orgsBody,   \* server: the JSON body of GET orgs
    membersBody, \* server: the JSON body of GET org/<id>/members, a list
    projectBody, \* server: whether the body of GET orgs/<id>/projects/<id> has "data"
    depBodies,  \* server: for each page number, the JSON body of POST dependencies
    tries,      \* client: the configured attempt count
    statuses,   \* server: the HTTP status it answers each attempt of a verb with
    failAt,     \* server: the ordinal of the request that is answered with an error (0: none)
    instance,   \* the manager's bound instance: an Organization, a Project, or NoInstance
    dictBody,   \* server: the JSON object of a dict-shaped resource, its pairs in order
    issuesBody, \* server: the JSON body of POST issues
    objects,    \* the caller: the params dict it keeps, and the shared default argument
    cachedTags, \* the project's cached tag list, _tags
    last        \* the outcome of the last operation: what it returned or raised, and its calls

server == <<pages, orgsBody, membersBody, projectBody, depBodies, dictBody, issuesBody>>

config == <<tries>>

vars == <<server, config, statuses, failAt, objects, instance, cachedTags, last>>

-----------------------------------------------------------------------------
(* Bounds of the model *)

MaxPages == 3       \* pages the server holds for one organization
MaxPerPage == 2     \* items in the "data" of one page
NumOrgs == 2        \* organization ids
MaxOrgList == 2     \* organizations in the body of GET orgs
MaxDepPages == 2    \* pages of dependencies the server's totals can ask for
MaxTries == 4       \* attempts a client can be configured with
MaxTags == 2        \* tags in the cached tag list of a project at the start
MaxEntries == 2     \* vulnerabilities in the body of POST issues

OrgIds == 1..NumOrgs

-----------------------------------------------------------------------------
(* Python values *)

\* A dict is a function from its keys; {} is the function with no key.
EmptyDict == [x \in {} |-> x]

Put(d, k, v) == [x \in (DOMAIN d) \cup {k} |-> IF x = k THEN v ELSE d[x]]

Has(d, k) == k \in DOMAIN d

RECURSIVE Flatten(_)
Flatten(ss) == IF ss = <<>> THEN <<>> ELSE Head(ss) \o Flatten(Tail(ss))

NoDuplicates(s) == \A i, j \in 1..Len(s) : s[i] = s[j] => i = j

\* The outcome of a call: what it returned or the exception it raised, and
\* the calls it made on the client up to that point.
\* (mutant) an error is swallowed: the method goes on with nothing
Raised_Partial(e, cs) == [raised |-> "none", value |-> <<>>, calls |-> cs]

Returned(v, cs) == [raised |-> "none", value |-> v, calls |-> cs]
Raised(e, cs) == [raised |-> e, value |-> <<>>, calls |-> cs]

-----------------------------------------------------------------------------
(* The server's project collection: a chain of pages linked by links.next *)

\* A page's JSON body: "data" may be missing, links.next may be missing.
\* The items of a page are numbered so that no two items of the server are equal.
PageItems(i, n) == [k \in 1..n |-> (i - 1) * MaxPerPage + k]

PageBodies ==
    [hasData : {TRUE}, n : 0..MaxPerPage, hasNext : BOOLEAN]
    \cup [hasData : {FALSE}, n : {0}, hasNext : BOOLEAN]

\* A finite chain: the last page the server holds has no next link.
PageChains ==
    UNION { { ps \in [1..len -> PageBodies] : ~ps[len].hasNext } : len \in 1..MaxPages }

\* The paths of the collection: the first-page path the manager builds, and
\* the next-page URLs the server hands out (opaque to the client).
FirstPath(org) == [kind |-> "collection", org |-> org, page |-> 1]
NextLink(org, i) == [kind |-> "next", org |-> org, page |-> i + 1]
NoUrl == [kind |-> "none", org |-> 0, page |-> 0]

\* The body the server sends for a path: the page it names.
Serve(path) == pages[path.org][path.page]

\* (mutant) the next link is never seen: the fetch stops after the first page
Links_NeverNext(path) == EmptyDict

\* The links of a body: links.next is the URL of the page that follows.
Links(path) ==
    IF Serve(path).hasNext THEN [next |-> NextLink(path.org, path.page)] ELSE EmptyDict

\* The body of GET orgs: "orgs" may be missing. Two entries may carry the
\* same id; the name tells them apart.
OrgData(ids) == [k \in 1..Len(ids) |-> [id |-> ids[k], name |-> k]]

IdLists == UNION { [1..len -> OrgIds] : len \in 0..MaxOrgList }

OrgsBodies ==
    { [hasOrgs |-> TRUE, orgs |-> OrgData(ids)] : ids \in IdLists }
    \cup { [hasOrgs |-> FALSE, orgs |-> <<>>] }

-----------------------------------------------------------------------------
(* Organizations and projects (snyk/models.py) *)

Organization(id, name, client) == [id |-> id, name |-> name, client |-> client]

\* instance=None
NoInstance == Organization(0, 0, FALSE)

\* Organization.from_dict(instance.to_dict()): client is an InitVar, which
\* to_dict does not carry.
OrgFromDict(data) == Organization(data.id, data.name, FALSE)

Project(id, organization) == [id |-> id, organization |-> organization]

\* Project.from_dict of each item of a page's "data", in order; the item's
\* "organization" is instance.to_dict().
DecodePage(inst, path) ==
    LET items == PageItems(path.page, Serve(path).n)
    IN  [k \in 1..Len(items) |-> Project(items[k], OrgFromDict(inst))]

\* (mutant) the projects keep the organization decoded with them
SetOrganization_Skip(projects, inst) == projects

\* for x in projects: x.organization = self.instance
SetOrganization(projects, inst) ==
    [k \in 1..Len(projects) |-> Project(projects[k].id, inst)]

-----------------------------------------------------------------------------
(* Tag criteria *)

Tag(k, v) == [key |-> k, value |-> v]

TagOk(tag) == Has(tag, "key") /\ Has(tag, "value") /\ Cardinality(DOMAIN tag) = 2

\* ",".join(f'{d["key"]}:{d["value"]}' ...): the key:value pairs in order.
TagString(tags) == [joined |-> [i \in 1..Len(tags) |-> <<tags[i]["key"], tags[i]["value"]>>]]

-----------------------------------------------------------------------------
(* The calls of the managers on the client *)

\* (mutant) the version and the params are sent with a next link too
GetCall_NeverExclude(path, version, params, exclude) ==
    [verb |-> "get", path |-> path, version |-> version, params |-> params,
     exclude_params |-> FALSE, exclude_version |-> FALSE]

\* client.get(path, version=..., params=..., exclude_params=..., exclude_version=...)
GetCall(path, version, params, exclude) ==
    [verb |-> "get", path |-> path, version |-> version, params |-> params,
     exclude_params |-> exclude, exclude_version |-> exclude]

\* client.get(path)
PlainGet(path) == [verb |-> "get", path |-> path]

\* The client as the manager sees it: the request is sent, and the verb
\* raises SnykError when the server answers it with an error.
ClientRaises(cs) == Len(cs) = failAt

-----------------------------------------------------------------------------
(* OrganizationManager (snyk/managers.py) *)

OrgsPath == [kind |-> "orgs", org |-> 0, page |-> 0]

OM_all(client, cs) ==
    LET cs1 == Append(cs, PlainGet(OrgsPath))
    IN  IF ClientRaises(cs1)
        THEN Raised("SnykError", cs1)
        ELSE IF orgsBody.hasOrgs
        THEN Returned([k \in 1..Len(orgsBody.orgs) |->
                          Organization(orgsBody.orgs[k].id, orgsBody.orgs[k].name, client)],
                      cs1)
        ELSE Returned(<<>>, cs1)

-----------------------------------------------------------------------------
(* ProjectManager (snyk/managers.py) *)

DefaultLimit == 100
ProjectsVersion == "2024-06-21"

\* ProjectManager._query. inst is the manager's instance; cs is the log of
\* the calls made so far; params is the one dict object the recursion shares.
RECURSIVE PM_query(_, _, _, _)
RECURSIVE PM_all(_, _, _)
RECURSIVE PM_each(_, _, _, _)

PM_query(inst, next_url, params, cs) ==
    LET first == (next_url = NoUrl)
        p1 == IF Has(params, "limit") THEN params ELSE Put(params, "limit", DefaultLimit)
    IN  IF inst # NoInstance
        THEN
        LET path == IF first THEN FirstPath(inst.id) ELSE next_url
            withTags == Has(p1, "tags") /\ first
        IN  IF withTags /\ \E i \in 1..Len(p1["tags"]) : ~TagOk(p1["tags"][i])
            THEN Raised("SnykError", cs)
            ELSE
            LET p2 == IF withTags THEN Put(p1, "tags", TagString(p1["tags"])) ELSE p1
                p3 == IF first
                      THEN Put(Put(p2, "meta.latest_issue_counts", "true"), "expand", "target")
                      ELSE p2
                cs1 == Append(cs, GetCall(path, ProjectsVersion, p3, ~first))
            IN  IF ClientRaises(cs1)
                THEN Raised("SnykError", cs1)
                ELSE IF ~Serve(path).hasData
                THEN Returned(<<>>, cs1)
                ELSE
                LET here == DecodePage(inst, path)
                IN  IF Has(Links(path), "next")
                    THEN LET rest == PM_query(inst, Links(path)["next"], p3, cs1)
                         IN  IF rest.raised # "none"
                             THEN rest
                             ELSE Returned(SetOrganization(here \o rest.value, inst),
                                           rest.calls)
                    ELSE Returned(SetOrganization(here, inst), cs1)
        ELSE
        LET orgs == OM_all(TRUE, cs)
        IN  IF orgs.raised # "none" THEN orgs ELSE PM_each(orgs.value, p1, orgs.calls, <<>>)

\* (mutant) the projects of the first organization only
PM_each_FirstOnly(orgs, params, cs, projects) ==
    IF orgs = <<>> THEN Returned(projects, cs) ELSE PM_all(Head(orgs), params, cs)

\* for org in self.client.organizations.all():
\*     projects.extend(org.projects.all(params=params))
PM_each(orgs, params, cs, projects) ==
    IF orgs = <<>>
    THEN Returned(projects, cs)
    ELSE LET r == PM_all(Head(orgs), params, cs)
         IN  IF r.raised # "none"
             THEN r
             ELSE PM_each(Tail(orgs), params, r.calls, projects \o r.value)

\* ProjectManager.all: _query on a deep copy of params.
PM_all(inst, params, cs) == PM_query(inst, NoUrl, params, cs)

-----------------------------------------------------------------------------
(* Manager.get, MemberManager, ProjectManager.get (snyk/managers.py) *)

\* (mutant) the last item with the id is returned
Manager_get_Last(all, id) ==
    IF all.raised # "none"
    THEN all
    ELSE LET hits == { i \in 1..Len(all.value) : all.value[i].id = id }
         IN  IF hits = {}
             THEN Raised("SnykNotFoundError", all.calls)
             ELSE Returned(all.value[CHOOSE i \in hits : \A j \in hits : j <= i], all.calls)

\* next(x for x in self.all() if x.id == id), SnykNotFoundError on StopIteration;
\* all is the outcome of self.all()
Manager_get(all, id) ==
    IF all.raised # "none"
    THEN all
    ELSE LET hits == { i \in 1..Len(all.value) : all.value[i].id = id }
         IN  IF hits = {}
             THEN Raised("SnykNotFoundError", all.calls)
             ELSE Returned(all.value[CHOOSE i \in hits : \A j \in hits : i <= j], all.calls)

Member(id, name) == [id |-> id, name |-> name]

MembersPath(org) == [kind |-> "members", org |-> org, page |-> 0]

MM_all(inst, cs) ==
    LET cs1 == Append(cs, PlainGet(MembersPath(inst.id)))
    IN  IF ClientRaises(cs1)
        THEN Raised("SnykError", cs1)
        ELSE Returned([k \in 1..Len(membersBody) |->
                          Member(membersBody[k].id, membersBody[k].name)], cs1)

\* The projects the server holds for an organization: the items of all its pages.
ProjectExists(org, id) ==
    \E i \in 1..Len(pages[org]) :
        pages[org][i].hasData
            /\ \E k \in 1..pages[org][i].n : PageItems(i, pages[org][i].n)[k] = id

ProjectPath(org, id) == [kind |-> "project", org |-> org, page |-> 0, id |-> id]

Remove(d, k) == [x \in (DOMAIN d) \ {k} |-> d[x]]

\* return None
None == [none |-> TRUE]

\* (mutant) the project is looked for in the collection, as Manager.get does
PM_get_Search(inst, id, params, cs) == Manager_get(PM_all(inst, params, cs), id)

\* ProjectManager.get
PM_get(inst, id, params, cs) ==
    IF inst # NoInstance
    THEN
    LET c1 == IF Has(params, "meta.latest_issue_counts")
              THEN params ELSE Put(params, "meta.latest_issue_counts", "true")
        c2 == IF Has(c1, "expand") THEN c1 ELSE Put(c1, "expand", "target")
        version == IF Has(c2, "version") THEN c2["version"] ELSE ProjectsVersion
        c3 == Remove(c2, "version")
        path == ProjectPath(inst.id, id)
    IN  IF Has(c3, "tags") /\ \E i \in 1..Len(c3["tags"]) : ~TagOk(c3["tags"][i])
        THEN Raised("SnykError", cs)
        ELSE
        LET c4 == IF Has(c3, "tags") THEN Put(c3, "tags", TagString(c3["tags"])) ELSE c3
            cs1 == Append(cs, GetCall(path, version, c4, FALSE))
        IN  IF ClientRaises(cs1) \/ ~ProjectExists(inst.id, id)
            THEN Raised("SnykError", cs1)
            ELSE IF projectBody = "data"
            THEN Returned(Project(id, inst), cs1)
            ELSE Returned(None, cs1)
    ELSE Manager_get(PM_all(inst, params, cs), id)

-----------------------------------------------------------------------------
(* DependencyManager (snyk/managers.py) *)

results_per_page == 1000

\* The totals a body of POST dependencies can declare: the multiples of the
\* page size that MaxDepPages pages can hold, and their neighbours.
Totals ==
    { t \in { k * results_per_page + d : k \in 0..MaxDepPages, d \in {-1, 0, 1} } :
        t >= 0 /\ t <= MaxDepPages * results_per_page }

DepBodies == [total : Totals, n : 0..MaxPerPage]

\* The body the server sends for a page: past the pages it holds, an empty one.
DepBody(page) ==
    IF page \in DOMAIN depBodies THEN depBodies[page] ELSE [total |-> 0, n |-> 0]

\* client.post(path, post_body)
PostCall(path, body) == [verb |-> "post", path |-> path, body |-> body]

\* (mutant) one page too many when the total is a multiple of the page size
MorePages_AtLeast(total, page) == total >= (page * results_per_page)

\* (mutant) the page before is taken for the one just fetched
MorePages_OnePageMore(total, page) == total > ((page - 1) * results_per_page)

\* if total > (page * results_per_page)
MorePages(total, page) == total > (page * results_per_page)

RECURSIVE DM_all(_, _, _)
DM_all(inst, page, cs) ==
    LET ofProject == Has(inst, "organization")
        org_id == IF ofProject THEN inst.organization.id ELSE inst.id
        post_body == IF ofProject
                     THEN [filters |-> [projects |-> <<inst.id>>]]
                     ELSE [filters |-> EmptyDict]
        path == [kind |-> "dependencies", org |-> org_id,
                 page |-> page, perPage |-> results_per_page]
        cs1 == Append(cs, PostCall(path, post_body))
    IN  IF ClientRaises(cs1)
        THEN Raised("SnykError", cs1)
        ELSE
        LET total == DepBody(page).total
            results == PageItems(page, DepBody(page).n)
        IN  IF MorePages(total, page)
            THEN LET next_results == DM_all(inst, page + 1, cs1)
                 IN  IF next_results.raised # "none"
                     THEN next_results
                     ELSE Returned(results \o next_results.value, next_results.calls)
            ELSE Returned(results, cs1)

-----------------------------------------------------------------------------
(* SnykClient: the verbs.  pysnyk/client.py sends one request and raises    *)
(* SnykError on a falsy response; the attempt count, the retry on 5xx, the *)
(* query parameters and the REST family belong to snyk/client.py and follow*)
(* its specification and snyk/test_client.py.                              *)

\* The statuses a server answers with: success, a client error, server errors.
Statuses == {200, 404, 500, 503}

\* `if not resp`: a requests.Response is falsy from status 400 on
IsError(status) == status >= 400

\* SnykClient(token): tries=1
DefaultTries == 1

\* (mutant) every failed attempt is tried again
Retryable_AnyError(status) == status >= 400

\* The statuses the client tries again on: 5xx
Retryable(status) == status >= 500

\* (mutant) the configured count is taken for the number of retries, less one
MayRetry_OneShort(made) == made < tries - 1

\* (mutant) the client gives up after the first attempt
MayRetry_Never(made) == FALSE

\* Attempts are left after `made` of them
MayRetry(made) == made < tries

\* One HTTP call: requests.<verb>(url, ...)
HttpCall(verb, url, status) == [verb |-> verb, url |-> url, status |-> status]

\* A verb: the request is sent; a success response is returned; a 5xx
\* response is tried again while attempts are left; any other failure, and
\* the last 5xx, raise SnykError.
RECURSIVE Send(_, _, _)
Send(verb, url, cs) ==
    LET status == statuses[Len(cs) + 1]
        cs1 == Append(cs, HttpCall(verb, url, status))
    IN  IF ~IsError(status)
        THEN Returned(status, cs1)
        ELSE IF Retryable(status) /\ MayRetry(Len(cs1))
        THEN Send(verb, url, cs1)
        ELSE Raised("SnykError", cs1)

-----------------------------------------------------------------------------
(* SnykClient: the outgoing URL *)

\* A path, with the query string embedded in it as key-value pairs in order.
Path(name, query) == [name |-> name, query |-> query]

\* The order a params dict is written to the query string in.
KeyOrder == <<"limit", "expand", "version">>

Pairs(params) ==
    LET present(k) == Has(params, k)
        keys == SelectSeq(KeyOrder, present)
    IN  [i \in 1..Len(keys) |-> <<keys[i], params[keys[i]]>>]

Count(query, key) == Cardinality({ i \in 1..Len(query) : query[i][1] = key })

RestVersion == "2024-06-21"

\* (mutant) the params are appended whether or not the path carries the key
NewPairs_All(query, params) == Pairs(params)

\* The params that the path does not already carry: one value per key
NewPairs(query, params) ==
    LET new(pair) == Count(query, pair[1]) = 0
    IN  SelectSeq(Pairs(params), new)

\* (mutant) the version is appended whether or not the query carries one
WithVersion_Always(query, version) == Append(query, <<"version", version>>)

\* The version parameter, added unless the query carries one
WithVersion(query, version) ==
    IF Count(query, "version") = 0 THEN Append(query, <<"version", version>>) ELSE query

\* url = "%s/%s" % (api_url, path), and the query string sent with it
Url(rest, path, params, version, exclude_version, exclude_params) ==
    LET q == path.query \o (IF exclude_params THEN <<>> ELSE NewPairs(path.query, params))
    IN  [base |-> IF rest THEN "rest" ELSE "v1",
         name |-> path.name,
         query |-> IF rest /\ ~exclude_version THEN WithVersion(q, version) ELSE q]

NoVersion == "none"

\* get(path, params, version, exclude_version, exclude_params): a version
\* selects the REST family
Client_get(path, params, version, exclude_version, exclude_params) ==
    Send("get",
         Url(version # NoVersion, path, params, version, exclude_version, exclude_params),
         <<>>)

\* post / put / delete (path, ..., params, use_rest)
Client_send(verb, path, params, use_rest) ==
    Send(verb, Url(use_rest, path, params, RestVersion, FALSE, FALSE), <<>>)

\* patch(path, body, params): always the REST family
Client_patch(path, params) ==
    Send("patch", Url(TRUE, path, params, RestVersion, FALSE, FALSE), <<>>)

-----------------------------------------------------------------------------
(* The operations a caller invokes, and what the model records of them *)

\* The params a caller passes to ProjectManager.all / get.
ParamChoices ==
    << EmptyDict,
       [limit |-> 10],
       [tags |-> <<Tag("k1", "v1"), Tag("k2", "v2")>>],
       [tags |-> <<Tag("k1", "v1"), [key |-> "k2"]>>] >>

Outcome(op, id, params, out) ==
    [op |-> op, id |-> id, params |-> params,
     raised |-> out.raised, value |-> out.value, calls |-> out.calls]

NoOutcome == Outcome("none", 0, EmptyDict, Returned(<<>>, <<>>))

\* A finite chain with no page at all past the first: an organization whose
\* collection is one empty page.
OnePage == [i \in 1..1 |-> [hasData |-> TRUE, n |-> 0, hasNext |-> FALSE]]

NoOrgs == [hasOrgs |-> FALSE, orgs |-> <<>>]

NoDeps == [p \in 1..1 |-> [total |-> 0, n |-> 0]]

\* A body of POST issues with no "issues" member.
NoIssues == [ok |-> TRUE]

\* The caller keeps no params; the default argument of all / get is {}.
\* The objects a caller can see: its own params dict and tag list, and the
\* default values of the parameters, which Python makes once per function.
NoObjects ==
    [caller_params |-> EmptyDict, caller_tags |-> <<>>,
     all_params |-> EmptyDict, get_params |-> EmptyDict, query_params |-> EmptyDict,
     filter_tags |-> <<>>]

-----------------------------------------------------------------------------
(* Pagination of an organization's projects: org.projects.all(params) *)

InitPager ==
    /\ \E o \in OrgIds, chain \in PageChains :
         /\ instance = Organization(o, 1, TRUE)
         /\ pages = [x \in OrgIds |-> IF x = o THEN chain ELSE OnePage]
    /\ orgsBody = NoOrgs
    /\ membersBody = <<>> /\ projectBody = "data"
    /\ depBodies = NoDeps
    /\ dictBody = <<>> /\ cachedTags = <<>>
    /\ tries = DefaultTries /\ statuses = <<200>>
    /\ failAt \in 0..MaxPages
    /\ last = NoOutcome
    /\ issuesBody = NoIssues /\ objects = NoObjects

All ==
    \E c \in 1..Len(ParamChoices) :
        /\ last' = Outcome("all", 0, ParamChoices[c], PM_all(instance, ParamChoices[c], <<>>))
        /\ UNCHANGED <<server, config, statuses, failAt, objects, instance, cachedTags>>

NextPager == All

SpecPager == InitPager /\ [][NextPager]_vars

\* The pages of an organization's chain that a fetch is served: from the
\* first page along links.next, up to the first page that carries no next
\* link (or no "data", whose links are not read).
RECURSIVE ChainFrom(_, _)
ChainFrom(org, i) ==
    IF pages[org][i].hasData /\ pages[org][i].hasNext
    THEN <<i>> \o ChainFrom(org, i + 1)
    ELSE <<i>>

ChainData(org) ==
    LET chain == ChainFrom(org, 1)
    IN  Flatten([k \in 1..Len(chain) |-> PageItems(chain[k], pages[org][chain[k]].n)])

Ids(projects) == [k \in 1..Len(projects) |-> projects[k].id]

\* C1: on an organization-scoped ProjectManager, all() returns exactly the
\* 'data' items of the pages served along the links.next chain, concatenated
\* in server order, none dropped and none duplicated, whatever the number of
\* pages; and it asks for each page of the chain once, in chain order.
C1_AllIsChainConcatenation ==
    (last.op = "all" /\ last.raised = "none") =>
        /\ Ids(last.value) = ChainData(instance.id)
        /\ NoDuplicates(Ids(last.value))
        /\ Len(last.calls) = Len(ChainFrom(instance.id, 1))
        /\ \A k \in 1..Len(last.calls) :
               last.calls[k].path.page = ChainFrom(instance.id, 1)[k]

C1_Witness ==
    /\ last.op = "all" /\ last.raised = "none"
    /\ Len(last.calls) = 3
    /\ Len(last.value) > 3
    /\ pages[instance.id][2].n < pages[instance.id][1].n

\* The query parameters of the first-page request: the caller's, the default
\* limit when the caller gave none, and the two the manager adds.
FirstPageParamsOk(sent, given) ==
    /\ Has(sent, "limit")
    /\ sent["limit"] = (IF Has(given, "limit") THEN given["limit"] ELSE DefaultLimit)
    /\ Has(sent, "tags") = Has(given, "tags")
    /\ Has(sent, "meta.latest_issue_counts") /\ Has(sent, "expand")

\* C7: the first-page request goes to the collection path with the version
\* and the query parameters; every later request has for path the links.next
\* URL of the response before it, unchanged, and excludes both the version
\* and the query parameters.
C7_NextLinkVerbatim ==
    (last.op = "all" /\ Len(last.calls) > 0) =>
        /\ last.calls[1].path = FirstPath(instance.id)
        /\ last.calls[1].version = ProjectsVersion
        /\ ~last.calls[1].exclude_version /\ ~last.calls[1].exclude_params
        /\ FirstPageParamsOk(last.calls[1].params, last.params)
        /\ \A k \in 2..Len(last.calls) :
               /\ Serve(last.calls[k - 1].path).hasNext
               /\ last.calls[k].path = NextLink(instance.id, last.calls[k - 1].path.page)
               /\ last.calls[k].exclude_version /\ last.calls[k].exclude_params

C7_Witness ==
    /\ last.op = "all" /\ Len(last.calls) = 3
    /\ Has(last.params, "tags")
    /\ last.calls[3].exclude_version

-----------------------------------------------------------------------------
(* Pagination of dependencies: org.dependencies.all(), project.dependencies.all() *)

InitDeps ==
    /\ pages = [x \in OrgIds |-> OnePage]
    /\ orgsBody = NoOrgs
    /\ membersBody = <<>> /\ projectBody = "data"
    /\ depBodies \in [1..MaxDepPages -> DepBodies]
    /\ dictBody = <<>> /\ cachedTags = <<>>
    /\ tries = DefaultTries /\ statuses = <<200>>
    /\ failAt \in 0..MaxDepPages
    /\ instance \in { Organization(1, 1, TRUE), Project(1, Organization(1, 1, TRUE)) }
    /\ last = NoOutcome
    /\ issuesBody = NoIssues /\ objects = NoObjects

DepsAll ==
    /\ last' = Outcome("dependencies.all", 0, EmptyDict, DM_all(instance, 1, <<>>))
    /\ UNCHANGED <<server, config, statuses, failAt, objects, instance, cachedTags>>

NextDeps == DepsAll

SpecDeps == InitDeps /\ [][NextDeps]_vars

\* C2: DependencyManager.all() asks for page 1 first, always with 1000 per
\* page; it asks for page p+1 exactly when the total declared with page p is
\* greater than p*1000, so it returns at the first page p with
\* p*1000 >= total (after one request when the total is 0 or 1000); it
\* returns the results of the pages it fetched, in page order.
C2_DependencyPages ==
    (last.op = "dependencies.all") =>
        LET n == Len(last.calls)
        IN  /\ n >= 1
            /\ \A p \in 1..n :
                   /\ last.calls[p].path.page = p
                   /\ last.calls[p].path.perPage = 1000
            /\ \A p \in 1..(n - 1) : depBodies[p].total > p * 1000
            /\ last.raised = "none" =>
                   /\ n * 1000 >= DepBody(n).total
                   /\ depBodies[1].total \in {0, 1000} => n = 1
                   /\ last.value =
                          Flatten([p \in 1..n |-> PageItems(p, DepBody(p).n)])

\* Two pages fetched, the second ending the fetch on the boundary 2*1000 = total.
C2_Witness ==
    /\ last.op = "dependencies.all" /\ last.raised = "none"
    /\ Len(last.calls) = 2
    /\ depBodies[2].total = 2000
    /\ Len(last.value) > depBodies[1].n

-----------------------------------------------------------------------------
(* The transport: client.get / post / put / delete / patch *)

PathChoices ==
    << Path("orgs/o/projects", <<>>),
       Path("orgs/o/projects", << <<"limit", 100>> >>),
       Path("orgs/o/projects",
            << <<"version", RestVersion>>, <<"limit", 100>>, <<"starting_after", "cursor">> >>) >>

QueryChoices ==
    << EmptyDict, [limit |-> 10], [version |-> "2023-01-01", expand |-> "target"] >>

InitTransport ==
    /\ pages = [x \in OrgIds |-> OnePage]
    /\ orgsBody = NoOrgs
    /\ membersBody = <<>> /\ projectBody = "data"
    /\ depBodies = NoDeps
    /\ dictBody = <<>> /\ cachedTags = <<>>
    /\ tries \in 1..MaxTries
    /\ statuses \in [1..tries -> Statuses]
    /\ failAt = 0
    /\ instance = NoInstance
    /\ last = NoOutcome
    /\ issuesBody = NoIssues /\ objects = NoObjects

Request(verb, rest, path, params, out) ==
    [op |-> verb, rest |-> rest, path |-> path, params |-> params,
     raised |-> out.raised, value |-> out.value, calls |-> out.calls]

\* The verbs, on the paths ps and the params qs of the choices above.
Get(ps, qs) ==
    \E p \in ps, q \in qs,
       version \in {NoVersion, RestVersion}, xv \in BOOLEAN, xp \in BOOLEAN :
        /\ last' = Request("get", version # NoVersion, PathChoices[p], QueryChoices[q],
                           Client_get(PathChoices[p], QueryChoices[q], version, xv, xp))
        /\ UNCHANGED <<server, config, statuses, failAt, objects, instance, cachedTags>>

PostPutDelete(ps, qs) ==
    \E verb \in {"post", "put", "delete"}, p \in ps, q \in qs, use_rest \in BOOLEAN :
        /\ last' = Request(verb, use_rest, PathChoices[p], QueryChoices[q],
                           Client_send(verb, PathChoices[p], QueryChoices[q], use_rest))
        /\ UNCHANGED <<server, config, statuses, failAt, objects, instance, cachedTags>>

Patch(ps, qs) ==
    \E p \in ps, q \in qs :
        /\ last' = Request("patch", TRUE, PathChoices[p], QueryChoices[q],
                           Client_patch(PathChoices[p], QueryChoices[q]))
        /\ UNCHANGED <<server, config, statuses, failAt, objects, instance, cachedTags>>

\* Retries: every attempt count and every sequence of answers, one path.
NextTransport == Get({1}, {1}) \/ PostPutDelete({1}, {1}) \/ Patch({1}, {1})

SpecTransport == InitTransport /\ [][NextTransport]_vars

\* The outgoing URL: every path and params, a client built with defaults.
InitUrl ==
    /\ pages = [x \in OrgIds |-> OnePage]
    /\ orgsBody = NoOrgs
    /\ membersBody = <<>> /\ projectBody = "data"
    /\ depBodies = NoDeps
    /\ dictBody = <<>> /\ cachedTags = <<>>
    /\ tries = DefaultTries
    /\ statuses \in [1..tries -> Statuses]
    /\ failAt = 0
    /\ instance = NoInstance
    /\ last = NoOutcome
    /\ issuesBody = NoIssues /\ objects = NoObjects

AllPaths == 1..Len(PathChoices)
AllQueries == 1..Len(QueryChoices)

NextUrl ==
    Get(AllPaths, AllQueries) \/ PostPutDelete(AllPaths, AllQueries)
        \/ Patch(AllPaths, AllQueries)

SpecUrl == InitUrl /\ [][NextUrl]_vars

Verbs == {"get", "post", "put", "delete", "patch"}

\* C3: when every response is HTTP 500, each of get, post, put and delete
\* raises SnykError after exactly `tries` HTTP calls: one call for a client
\* built with defaults, four for tries=4.
C3_AlwaysFailingRaisesAfterTries ==
    (last.op \in {"get", "post", "put", "delete"}
        /\ \A k \in 1..tries : statuses[k] = 500) =>
        /\ last.raised = "SnykError"
        /\ Len(last.calls) = tries
        /\ (tries = DefaultTries => Len(last.calls) = 1)
        /\ \A k \in 1..Len(last.calls) : last.calls[k].verb = last.op

C3_Witness ==
    /\ last.op = "put" /\ tries = 4
    /\ \A k \in 1..tries : statuses[k] = 500
    /\ last.raised = "SnykError" /\ Len(last.calls) = 4

\* C4: a request answered 500 on its first attempts-1 tries and with a
\* success on the next returns that success response, after exactly
\* `attempts` HTTP calls, for every attempts up to the configured count.
C4_SuccessAfterRetries ==
    \A attempts \in 1..tries :
        (last.op \in Verbs
            /\ (\A k \in 1..(attempts - 1) : statuses[k] = 500)
            /\ statuses[attempts] = 200) =>
            /\ last.raised = "none"
            /\ last.value = 200
            /\ Len(last.calls) = attempts
            /\ last.calls[attempts].status = 200

C4_Witness ==
    /\ last.op = "post" /\ tries = 3
    /\ statuses = <<500, 500, 200>>
    /\ last.raised = "none" /\ Len(last.calls) = 3

\* C5: a non-success response that is not 5xx is not retried: the verb raises
\* SnykError on it, after exactly one HTTP call when it answers the first
\* attempt, whatever the configured attempt count.
C5_ClientErrorNotRetried ==
    (last.op \in Verbs) =>
        /\ statuses[1] = 404 => (last.raised = "SnykError" /\ Len(last.calls) = 1)
        /\ \A k \in 1..Len(last.calls) :
               last.calls[k].status = 404 =>
                   (k = Len(last.calls) /\ last.raised = "SnykError")

C5_Witness ==
    /\ last.op = "patch" /\ tries = 4
    /\ statuses[1] = 404
    /\ last.raised = "SnykError" /\ Len(last.calls) = 1

\* C6: every request to the REST family (patch, and post / put / delete with
\* use_rest) carries the version parameter exactly once in its query string,
\* also when the caller passed a version in params.
C6_VersionExactlyOnce ==
    (last.op \in {"patch", "post", "put", "delete"} /\ last.rest) =>
        \A k \in 1..Len(last.calls) :
            /\ last.calls[k].url.base = "rest"
            /\ Count(last.calls[k].url.query, "version") = 1

C6_Witness ==
    /\ last.op = "post" /\ last.rest /\ last.raised = "none"
    /\ Has(last.params, "version")
    /\ last.path.query = <<>>
    /\ Count(last.calls[1].url.query, "version") = 1

\* C8: a key that is both embedded in the path and in the params passed to
\* get is in the outgoing query string exactly once.
C8_OneValuePerKey ==
    (last.op = "get") =>
        \A k \in 1..Len(last.calls) :
            \A i \in 1..Len(last.path.query) :
                Has(last.params, last.path.query[i][1]) =>
                    Count(last.calls[k].url.query, last.path.query[i][1]) = 1

C8_Witness ==
    /\ last.op = "get" /\ last.rest
    /\ last.path.query = << <<"limit", 100>> >>
    /\ Has(last.params, "limit")
    /\ last.calls[1].url.query = << <<"limit", 100>>, <<"version", RestVersion>> >>

-----------------------------------------------------------------------------
(* Lookups: organizations.get, members.get, projects.get *)

\* One page per organization: its projects, or a body without "data".
SinglePages == { ps \in PageChains : Len(ps) = 1 }

\* The body of GET orgs lists the organization.
Listed(o) == \E k \in 1..Len(orgsBody.orgs) : orgsBody.orgs[k].id = o

\* Either the managers of the client (unbound), with the organizations and
\* their projects to look through (an organization that is not listed has
\* no project), or the managers of one organization, with its members and
\* its projects.
InitLookup ==
    /\ depBodies = NoDeps
    /\ dictBody = <<>> /\ cachedTags = <<>>
    /\ tries = DefaultTries /\ statuses = <<200>>
    /\ failAt \in 0..2
    /\ last = NoOutcome
    /\ issuesBody = NoIssues /\ objects = NoObjects
    /\ \/ /\ instance = NoInstance
          /\ orgsBody \in OrgsBodies
          /\ pages \in [OrgIds -> SinglePages]
          /\ \A o \in OrgIds : Listed(o) \/ pages[o] = OnePage
          /\ membersBody = <<>> /\ projectBody = "data"
       \/ /\ \E o \in OrgIds, page \in SinglePages :
                /\ instance = Organization(o, 1, TRUE)
                /\ pages = [x \in OrgIds |-> IF x = o THEN page ELSE OnePage]
          /\ orgsBody = NoOrgs
          /\ \E ids \in IdLists : membersBody = OrgData(ids)
          /\ projectBody \in {"data", "nodata"}

\* client.organizations.get(id)
OrganizationsGet ==
    \E id \in OrgIds :
        /\ instance = NoInstance
        /\ last' = Outcome("organizations.get", id, EmptyDict,
                           Manager_get(OM_all(TRUE, <<>>), id))
        /\ UNCHANGED <<server, config, statuses, failAt, objects, instance, cachedTags>>

\* org.members.get(id)
MembersGet ==
    \E id \in OrgIds :
        /\ instance # NoInstance
        /\ last' = Outcome("members.get", id, EmptyDict,
                           Manager_get(MM_all(instance, <<>>), id))
        /\ UNCHANGED <<server, config, statuses, failAt, objects, instance, cachedTags>>

\* client.projects.get(id, params), org.projects.get(id, params)
ProjectsGet ==
    \E id \in 1..MaxPerPage, c \in 1..Len(ParamChoices) :
        /\ last' = Outcome("projects.get", id, ParamChoices[c],
                           PM_get(instance, id, ParamChoices[c], <<>>))
        /\ UNCHANGED <<server, config, statuses, failAt, objects, instance, cachedTags>>

NextLookup == OrganizationsGet \/ MembersGet \/ ProjectsGet

SpecLookup == InitLookup /\ [][NextLookup]_vars

\* What all() gives on the manager the last lookup was made on.
AllOfLast ==
    IF last.op = "organizations.get" THEN OM_all(TRUE, <<>>)
    ELSE IF last.op = "members.get" THEN MM_all(instance, <<>>)
    ELSE PM_all(instance, last.params, <<>>)

FirstWithId(items, id) ==
    items[CHOOSE i \in 1..Len(items) :
              items[i].id = id /\ \A j \in 1..(i - 1) : items[j].id # id]

\* C9: on a list-shaped manager (organizations, members, the unbound project
\* manager), get(id) returns the first item of all() whose id is the argument
\* when there is one, and raises SnykNotFoundError when all() has none.
C9_GetIsFirstMatch ==
    (last.op \in {"organizations.get", "members.get"}
        \/ (last.op = "projects.get" /\ instance = NoInstance)) =>
        (AllOfLast.raised = "none" =>
            IF \E i \in 1..Len(AllOfLast.value) : AllOfLast.value[i].id = last.id
            THEN last.raised = "none"
                 /\ last.value = FirstWithId(AllOfLast.value, last.id)
            ELSE last.raised = "SnykNotFoundError")

\* Two organizations carry the id asked for; the first of them is returned.
C9_Witness ==
    /\ last.op = "organizations.get" /\ last.raised = "none"
    /\ Len(orgsBody.orgs) = 2
    /\ orgsBody.orgs[1].id = orgsBody.orgs[2].id
    /\ last.value.name = 1

\* C10: on an organization-scoped ProjectManager, get(id) either returns a
\* Project whose organization is the bound organization or fails with an
\* error (as it does when the project is absent); it never returns normally
\* without a Project, the body of a successful response lacking 'data' included.
C10_GetReturnsProjectOrRaises ==
    (last.op = "projects.get" /\ instance # NoInstance) =>
        /\ last.raised = "none" =>
               (last.value # None /\ last.value = Project(last.id, instance))
        /\ ~ProjectExists(instance.id, last.id) => last.raised # "none"


-----------------------------------------------------------------------------
(* Manager.first, Manager.filter (snyk/managers.py) *)

\* (mutant) the last item is returned
Manager_first_Last(all) ==
    IF all.raised # "none"
    THEN all
    ELSE IF Len(all.value) = 0
    THEN Raised("SnykNotFoundError", all.calls)
    ELSE Returned(all.value[Len(all.value)], all.calls)

\* self.all()[0], SnykNotFoundError on IndexError; all is the outcome of self.all()
Manager_first(all) ==
    IF all.raised # "none"
    THEN all
    ELSE IF Len(all.value) = 0
    THEN Raised("SnykNotFoundError", all.calls)
    ELSE Returned(all.value[1], all.calls)

\* A keyword argument: its name and its value. kwargs is the sequence of
\* them, in the order the caller wrote them.
Kwarg(key, value) == <<key, value>>

\* [x for x in data if getattr(x, key) == value]
Matching(data, kwarg) ==
    LET holds(x) == x[kwarg[1]] = kwarg[2]
    IN  SelectSeq(data, holds)

\* (mutant) only the first criterion is applied
Manager_filter_by_kwargs_First(data, kwargs) ==
    IF kwargs = <<>> THEN data ELSE Matching(data, Head(kwargs))

\* Manager._filter_by_kwargs: the criteria are applied one after the other
RECURSIVE Manager_filter_by_kwargs(_, _)
Manager_filter_by_kwargs(data, kwargs) ==
    IF kwargs = <<>>
    THEN data
    ELSE Manager_filter_by_kwargs(Matching(data, Head(kwargs)), Tail(kwargs))

\* getattr(x, key) raises AttributeError when an item that is looked at has
\* no attribute of the name
RECURSIVE LacksAttribute(_, _)
LacksAttribute(data, kwargs) ==
    IF kwargs = <<>>
    THEN FALSE
    ELSE \/ \E i \in 1..Len(data) : ~Has(data[i], Head(kwargs)[1])
         \/ LacksAttribute(Matching(data, Head(kwargs)), Tail(kwargs))

\* Manager.filter; all is the outcome of self.all()
Manager_filter(all, kwargs) ==
    IF all.raised # "none"
    THEN all
    ELSE IF LacksAttribute(all.value, kwargs)
    THEN Raised("AttributeError", all.calls)
    ELSE Returned(Manager_filter_by_kwargs(all.value, kwargs), all.calls)

-----------------------------------------------------------------------------
(* DictManager and its subclasses (snyk/managers.py) *)

\* The managers of a mapping, and what they are bound to.
ProjectDicts == {"settings", "ignores", "jira-issues"}
DictManagers == ProjectDicts \cup {"entitlements", "integration-settings"}

\* An Integration of an organization: like a Project, an id and the
\* organization it belongs to.
Integration(id, organization) == [id |-> id, organization |-> organization]

\* The path of the mapping of a manager bound to inst.
DictPath(manager, inst) ==
    IF manager = "entitlements"
    THEN [kind |-> manager, org |-> inst.id, page |-> 0]
    ELSE [kind |-> manager, org |-> inst.organization.id, page |-> 0, id |-> inst.id]

\* all(): resp.json(), the pairs of the object in its order
Dict_all(manager, inst, cs) ==
    LET cs1 == Append(cs, PlainGet(DictPath(manager, inst)))
    IN  IF ClientRaises(cs1)
        THEN Raised("SnykError", cs1)
        ELSE Returned(dictBody, cs1)

HasKey(pairs, key) == \E i \in 1..Len(pairs) : pairs[i][1] = key

ValueOf(pairs, key) == pairs[CHOOSE i \in 1..Len(pairs) : pairs[i][1] = key][2]

\* (mutant) a key that is not there gives None, as dict.get does
DictManager_get_OrNone(all, id) ==
    IF all.raised # "none"
    THEN all
    ELSE IF HasKey(all.value, id)
    THEN Returned(ValueOf(all.value, id), all.calls)
    ELSE Returned(None, all.calls)

\* self.all()[id], SnykNotFoundError on KeyError
DictManager_get(all, id) ==
    IF all.raised # "none"
    THEN all
    ELSE IF HasKey(all.value, id)
    THEN Returned(ValueOf(all.value, id), all.calls)
    ELSE Raised("SnykNotFoundError", all.calls)

\* (mutant) the mapping is fetched before the method gives up
DictManager_filter_Fetches(manager, inst, kwargs, cs) ==
    LET all == Dict_all(manager, inst, cs)
    IN  IF all.raised # "none"
        THEN all
        ELSE Raised("SnykNotImplementedError", all.calls)

\* raise SnykNotImplementedError
DictManager_filter(manager, inst, kwargs, cs) == Raised("SnykNotImplementedError", cs)

\* next(iter(self.all().items())), SnykNotFoundError on StopIteration
DictManager_first(all) ==
    IF all.raised # "none"
    THEN all
    ELSE IF Len(all.value) = 0
    THEN Raised("SnykNotFoundError", all.calls)
    ELSE Returned(all.value[1], all.calls)

-----------------------------------------------------------------------------
(* SingletonManager and its subclasses (snyk/managers.py) *)

SingletonManagers == {"issueset", "issueset-aggregated", "dependency-graph", "issue-paths"}

SingletonManager_first(manager, cs) == Raised("SnykNotImplementedError", cs)

\* (mutant) the one instance is looked for, and not found
SingletonManager_get_NotFound(manager, id, cs) == Raised("SnykNotFoundError", cs)

SingletonManager_get(manager, id, cs) == Raised("SnykNotImplementedError", cs)


-----------------------------------------------------------------------------
(* The generic methods on the managers of a client, an organization and a   *)
(* project: first, filter, get                                              *)

ListManagers == {"organizations", "members", "projects"}

\* The manager as the caller reaches it from the project: client.organizations,
\* org.members, org.projects, org.entitlements, project.settings, ...
BoundTo(manager) ==
    IF manager = "organizations" THEN NoInstance
    ELSE IF manager \in {"members", "projects", "entitlements"} THEN instance.organization
    ELSE IF manager = "integration-settings" THEN Integration(1, instance.organization)
    ELSE instance

\* all() of a list-shaped manager
List_all(manager, cs) ==
    IF manager = "organizations" THEN OM_all(TRUE, cs)
    ELSE IF manager = "members" THEN MM_all(BoundTo(manager), cs)
    ELSE PM_all(BoundTo(manager), EmptyDict, cs)

\* The JSON objects a dict-shaped resource can be: pairs with distinct keys.
DictKeys == {"k1", "k2"}

DictBodies ==
    { <<>> }
    \cup { << <<k, v>> >> : k \in DictKeys, v \in BOOLEAN }
    \cup { pairs \in { << <<k1, v1>>, <<k2, v2>> >> :
                        k1 \in DictKeys, k2 \in DictKeys, v1 \in BOOLEAN, v2 \in BOOLEAN } :
             pairs[1][1] # pairs[2][1] }

\* The criteria a caller passes to filter(**kwargs)
KwargChoices ==
    << <<>>,
       << Kwarg("name", 1) >>,
       << Kwarg("id", 1) >>,
       << Kwarg("id", 1), Kwarg("name", 2) >>,
       << Kwarg("name", 2), Kwarg("id", 2) >>,
       << Kwarg("nofield", 1) >> >>

Invoked(manager, op, arg, out) ==
    [manager |-> manager, op |-> op, arg |-> arg,
     raised |-> out.raised, value |-> out.value, calls |-> out.calls]

\* A project of an organization, and one of the bodies the server can answer
\* the managers with.
InitManagers ==
    /\ instance = Project(1, Organization(1, 1, TRUE))
    /\ depBodies = NoDeps
    /\ cachedTags = <<>>
    /\ tries = DefaultTries /\ statuses = <<200>>
    /\ failAt \in 0..1
    /\ projectBody = "data"
    /\ last = NoOutcome
    /\ issuesBody = NoIssues /\ objects = NoObjects
    /\ \/ /\ orgsBody \in OrgsBodies
          /\ membersBody = <<>> /\ dictBody = <<>>
          /\ pages = [x \in OrgIds |-> OnePage]
       \/ /\ \E ids \in IdLists : membersBody = OrgData(ids)
          /\ orgsBody = NoOrgs /\ dictBody = <<>>
          /\ pages = [x \in OrgIds |-> OnePage]
       \/ /\ dictBody \in DictBodies
          /\ orgsBody = NoOrgs /\ membersBody = <<>>
          /\ pages = [x \in OrgIds |-> OnePage]
       \/ /\ \E page \in SinglePages :
                pages = [x \in OrgIds |-> IF x = 1 THEN page ELSE OnePage]
          /\ orgsBody = NoOrgs /\ membersBody = <<>> /\ dictBody = <<>>

ListFirst ==
    \E m \in ListManagers :
        /\ last' = Invoked(m, "first", <<>>, Manager_first(List_all(m, <<>>)))
        /\ UNCHANGED <<server, config, statuses, failAt, objects, instance, cachedTags>>

ListFilter ==
    \E m \in {"organizations", "members"}, c \in 1..Len(KwargChoices) :
        /\ last' = Invoked(m, "filter", KwargChoices[c],
                           Manager_filter(List_all(m, <<>>), KwargChoices[c]))
        /\ UNCHANGED <<server, config, statuses, failAt, objects, instance, cachedTags>>

DictGet ==
    \E m \in DictManagers, key \in DictKeys \cup {"not-present"} :
        /\ last' = Invoked(m, "get", key,
                           DictManager_get(Dict_all(m, BoundTo(m), <<>>), key))
        /\ UNCHANGED <<server, config, statuses, failAt, objects, instance, cachedTags>>

DictFirst ==
    \E m \in DictManagers :
        /\ last' = Invoked(m, "first", <<>>,
                           DictManager_first(Dict_all(m, BoundTo(m), <<>>)))
        /\ UNCHANGED <<server, config, statuses, failAt, objects, instance, cachedTags>>

DictFilter ==
    \E m \in DictManagers, c \in 1..Len(KwargChoices) :
        /\ last' = Invoked(m, "filter", KwargChoices[c],
                           DictManager_filter(m, BoundTo(m), KwargChoices[c], <<>>))
        /\ UNCHANGED <<server, config, statuses, failAt, objects, instance, cachedTags>>

SingletonFirst ==
    \E m \in SingletonManagers :
        /\ last' = Invoked(m, "first", <<>>, SingletonManager_first(m, <<>>))
        /\ UNCHANGED <<server, config, statuses, failAt, objects, instance, cachedTags>>

SingletonGet ==
    \E m \in SingletonManagers, key \in DictKeys \cup {"not-present"} :
        /\ last' = Invoked(m, "get", key, SingletonManager_get(m, key, <<>>))
        /\ UNCHANGED <<server, config, statuses, failAt, objects, instance, cachedTags>>

NextManagers ==
    \/ ListFirst \/ ListFilter
    \/ DictGet \/ DictFirst \/ DictFilter
    \/ SingletonFirst \/ SingletonGet

SpecManagers == InitManagers /\ [][NextManagers]_vars

\* What all() gives, asked with no failure, on the manager of the last call.
AllOfManager ==
    IF last.manager \in ListManagers
    THEN List_all(last.manager, <<>>)
    ELSE Dict_all(last.manager, BoundTo(last.manager), <<>>)

\* C11: first() returns the first element of all() when the collection is
\* not empty, and raises SnykNotFoundError (not the transport's SnykError)
\* when the collection was fetched and is empty: the first item on a
\* list-shaped manager, the first key/value pair on a dict-shaped one.
C11_FirstOfAll ==
    (last.op = "first" /\ last.manager \in ListManagers \cup DictManagers
        /\ AllOfManager.raised = "none") =>
        /\ Len(last.calls) = 1
        /\ IF Len(AllOfManager.value) > 0
           THEN last.raised = "none" /\ last.value = AllOfManager.value[1]
           ELSE last.raised = "SnykNotFoundError"
        /\ last.manager \in DictManagers /\ last.raised = "none" =>
               last.value = dictBody[1]

C11_Witness ==
    /\ last.op = "first" /\ last.manager = "organizations"
    /\ Len(orgsBody.orgs) = 2
    /\ last.raised = "none" /\ last.value.name = 1

\* The empty collections: a body without "orgs", an empty JSON object.
C11_WitnessEmpty ==
    /\ last.op = "first" /\ last.manager = "settings"
    /\ dictBody = <<>> /\ failAt = 0
    /\ last.raised = "SnykNotFoundError"

Fields == {"id", "name"}

SatisfiesAll(x, kwargs) == \A k \in 1..Len(kwargs) : x[kwargs[k][1]] = kwargs[k][2]

\* C12: on a list-shaped manager with the generic filter, filter(**criteria)
\* with criteria on fields returns exactly the items of all() that satisfy
\* every criterion, in the order of all(): all of them with no criterion,
\* the empty list (and no error) when none does.
C12_FilterIsConjunction ==
    (last.op = "filter" /\ last.manager \in ListManagers
        /\ AllOfManager.raised = "none"
        /\ \A k \in 1..Len(last.arg) : last.arg[k][1] \in Fields) =>
        LET all == AllOfManager.value
            sat(x) == SatisfiesAll(x, last.arg)
        IN  /\ last.raised = "none"
            /\ last.value = SelectSeq(all, sat)
            /\ last.arg = <<>> => last.value = all
            /\ (\A i \in 1..Len(all) : ~sat(all[i])) => last.value = <<>>

\* Two criteria, of which each alone holds of both organizations and both
\* together of one.
C12_Witness ==
    /\ last.op = "filter" /\ last.manager = "organizations"
    /\ last.arg = << Kwarg("id", 1), Kwarg("name", 2) >>
    /\ Len(orgsBody.orgs) = 2
    /\ orgsBody.orgs[1].id = 1 /\ orgsBody.orgs[2].id = 1
    /\ last.raised = "none" /\ Len(last.value) = 1

\* C13: filter() on a dict-shaped manager raises SnykNotImplementedError,
\* whatever the criteria, and makes no request.
C13_DictFilterNotImplemented ==
    (last.op = "filter" /\ last.manager \in DictManagers) =>
        /\ last.raised = "SnykNotImplementedError"
        /\ last.calls = <<>>

C13_Witness ==
    /\ last.op = "filter" /\ last.manager = "ignores"
    /\ last.arg # <<>> /\ dictBody # <<>>
    /\ last.raised = "SnykNotImplementedError"

\* C14: get(id) and first() on a singleton manager raise
\* SnykNotImplementedError, whatever the argument, and make no request.
C14_SingletonNotImplemented ==
    (last.op \in {"get", "first"} /\ last.manager \in SingletonManagers) =>
        /\ last.raised = "SnykNotImplementedError"
        /\ last.calls = <<>>

C14_Witness ==
    /\ last.op = "get" /\ last.manager = "issueset"
    /\ last.raised = "SnykNotImplementedError"

\* C15: on a dict-shaped manager, get(key) returns the value the mapping of
\* all() holds under the key, and raises SnykNotFoundError when the mapping
\* has no such key.
C15_DictGet ==
    (last.op = "get" /\ last.manager \in DictManagers
        /\ AllOfManager.raised = "none") =>
        IF \E i \in 1..Len(dictBody) : dictBody[i][1] = last.arg
        THEN /\ last.raised = "none"
             /\ \E i \in 1..Len(dictBody) : dictBody[i] = <<last.arg, last.value>>
        ELSE last.raised = "SnykNotFoundError"

\* The key asked for is the second of the mapping.
C15_Witness ==
    /\ last.op = "get" /\ last.manager = "settings"
    /\ Len(dictBody) = 2 /\ dictBody[2][1] = last.arg
    /\ last.raised = "none" /\ last.value = dictBody[2][2]
    /\ dictBody[1][2] # dictBody[2][2]


-----------------------------------------------------------------------------
(* TagManager (snyk/managers.py) *)

\* client.patch(path, body)
PatchCall(path, body) == [verb |-> "patch", path |-> path, body |-> body]

\* The body of TagManager.__update_tags
TagsBody(inst, tags) ==
    [data |-> [attributes |-> [tags |-> tags],
               id |-> inst.id,
               relationships |-> EmptyDict,
               type |-> "project"]]

\* TagManager.all: self.instance._tags, the list object itself
TM_all(inst, cached) == cached

\* TagManager.__update_tags: bool() of the response of the PATCH
TM_update_tags(inst, tags, cs) ==
    LET path == ProjectPath(inst.organization.id, inst.id)
        cs1 == Append(cs, PatchCall(path, TagsBody(inst, tags)))
    IN  IF ClientRaises(cs1)
        THEN Raised("SnykError", cs1)
        ELSE Returned(TRUE, cs1)

\* What a method of the TagManager leaves: its outcome, and the cached list.
WithCache(out, cached) ==
    [raised |-> out.raised, value |-> out.value, calls |-> out.calls, cache |-> cached]

\* (mutant) only the new tag is sent
NewTags_OnlyDelta(cached, tag) == <<tag>>

\* new_tags = self.all(); new_tags.append(tag): the cached list, appended to
\* in place
NewTags(cached, tag) == Append(cached, tag)

\* TagManager.add: the tag is appended to the cached list, which is then sent
TM_add(inst, cached, key, value, cs) ==
    LET tag == Tag(key, value)
        new_tags == NewTags(TM_all(inst, cached), tag)
    IN  WithCache(TM_update_tags(inst, new_tags, cs), new_tags)

\* tag["key"] != key and tag["value"] != value
Retained(tag, key, value) == tag["key"] # key /\ tag["value"] # value

\* TagManager.delete: a new list is built and sent; the cached list is as it was
TM_delete(inst, cached, key, value, cs) ==
    LET keep(tag) == Retained(tag, key, value)
        filtered_tags == SelectSeq(TM_all(inst, cached), keep)
    IN  WithCache(TM_update_tags(inst, filtered_tags, cs), cached)

-----------------------------------------------------------------------------
(* The tags of one project: project.tags.all / add / delete *)

TagKeys == {"k1", "k2"}
TagValues == {"v1", "v2"}
Tags == { Tag(k, v) : k \in TagKeys, v \in TagValues }
TagLists == UNION { [1..n -> Tags] : n \in 0..MaxTags }

TagCall(op, tag, before, out) ==
    [op |-> op, arg |-> tag, before |-> before,
     raised |-> out.raised, value |-> out.value, calls |-> out.calls]

InitTags ==
    /\ instance = Project(1, Organization(1, 1, TRUE))
    /\ pages = [x \in OrgIds |-> OnePage]
    /\ orgsBody = NoOrgs
    /\ membersBody = <<>> /\ projectBody = "data"
    /\ depBodies = NoDeps
    /\ dictBody = <<>>
    /\ cachedTags \in TagLists
    /\ tries = DefaultTries /\ statuses = <<200>>
    /\ failAt \in 0..1
    /\ last = NoOutcome
    /\ issuesBody = NoIssues /\ objects = NoObjects

TagsAll ==
    /\ last' = TagCall("tags.all", <<>>, cachedTags,
                       Returned(TM_all(instance, cachedTags), <<>>))
    /\ UNCHANGED <<server, config, statuses, failAt, objects, instance, cachedTags>>

TagsAdd ==
    \E k \in TagKeys, v \in TagValues :
        /\ Len(cachedTags) <= MaxTags
        /\ LET out == TM_add(instance, cachedTags, k, v, <<>>)
           IN  /\ last' = TagCall("tags.add", Tag(k, v), cachedTags, out)
               /\ cachedTags' = out.cache
        /\ UNCHANGED <<server, config, statuses, failAt, objects, instance>>

TagsDelete ==
    \E k \in TagKeys, v \in TagValues :
        LET out == TM_delete(instance, cachedTags, k, v, <<>>)
        IN  /\ last' = TagCall("tags.delete", Tag(k, v), cachedTags, out)
            /\ cachedTags' = out.cache
            /\ UNCHANGED <<server, config, statuses, failAt, objects, instance>>

NextTags == TagsAll \/ TagsAdd \/ TagsDelete

SpecTags == InitTags /\ [][NextTags]_vars

\* C16: tags.add(k, v) on cached tags T and then tags.all() gives T followed
\* by {key k, value v}; tags.delete(k, v) right after it and then tags.all()
\* gives T again.
C16_TagRoundTrip ==
    [][ /\ (last'.op = "tags.add" /\ last'.raised = "none") =>
               TM_all(instance, cachedTags)' = Append(cachedTags, last'.arg)
        /\ (last.op = "tags.add" /\ last.raised = "none"
              /\ last'.op = "tags.delete" /\ last'.raised = "none"
              /\ last'.arg = last.arg) =>
               TM_all(instance, cachedTags)' = last.before ]_vars

\* The part of the above that the code keeps: what add leaves in the cache.
C16_AddAppends ==
    (last.op = "tags.add" /\ last.raised = "none") =>
        cachedTags = Append(last.before, last.arg)

Path_ok(call) ==
    call.verb = "patch" /\ call.path = ProjectPath(instance.organization.id, instance.id)

Sent(call) == call.body.data.attributes.tags

Restrict(seq, kept) ==
    LET in(i) == i \in kept
        idx == SelectSeq([i \in 1..Len(seq) |-> i], in)
    IN  [j \in 1..Len(idx) |-> seq[idx[j]]]

\* C17: a tag add and a tag delete each send one PATCH, to
\* orgs/<org id>/projects/<project id>, whose attributes.tags is the whole
\* list that results from the cached one: every cached tag followed by the
\* new one for add; for delete the cached tags in order, without the tag
\* removed and with every tag that shares neither key nor value with it.
C17_PatchCarriesFullList ==
    (last.op \in {"tags.add", "tags.delete"}) =>
        /\ Len(last.calls) = 1
        /\ Path_ok(last.calls[1])
        /\ last.op = "tags.add" => Sent(last.calls[1]) = Append(last.before, last.arg)
        /\ last.op = "tags.delete" =>
               \E kept \in SUBSET (1..Len(last.before)) :
                   /\ Sent(last.calls[1]) = Restrict(last.before, kept)
                   /\ \A i \in 1..Len(last.before) :
                          /\ last.before[i] = last.arg => i \notin kept
                          /\ (last.before[i].key # last.arg.key
                                /\ last.before[i].value # last.arg.value) => i \in kept

\* A tag is added to a list of two.
C17_Witness ==
    /\ last.op = "tags.add" /\ last.raised = "none"
    /\ Len(last.before) = 2
    /\ Len(Sent(last.calls[1])) = 3


-----------------------------------------------------------------------------
(* ProjectManager.filter (snyk/managers.py) *)

\* params = {**kwargs, **{"tags": tags}} if len(tags) > 0 else kwargs
FilterParams(tags, kwargs) == IF Len(tags) > 0 THEN Put(kwargs, "tags", tags) ELSE kwargs

PM_filter(inst, tags, kwargs, cs) == PM_all(inst, FilterParams(tags, kwargs), cs)

-----------------------------------------------------------------------------
(* The projects of a client and of an organization: all, filter, get *)

\* The tags a caller passes to filter: none, well-formed ones, and the three
\* ways of a malformed one.
TagChoices ==
    << <<>>,
       << Tag("k1", "v1"), Tag("k2", "v2") >>,
       << Tag("k1", "v1"), [key |-> "k2"] >>,
       << [value |-> "v1"] >>,
       << [key |-> "k1", value |-> "v1", extra |-> "x"] >> >>

KwargsChoices == << EmptyDict, [limit |-> 10] >>

\* The collections of an organization: empty, one page, two pages.
ShortChains ==
    { OnePage,
      [i \in 1..1 |-> [hasData |-> TRUE, n |-> 1, hasNext |-> FALSE]],
      [i \in 1..2 |-> [hasData |-> TRUE, n |-> 1, hasNext |-> (i = 1)]] }

\* Either the manager of the client, with the organizations listed and the
\* collection of each, or the manager of one organization.
InitProjects ==
    /\ depBodies = NoDeps
    /\ dictBody = <<>> /\ cachedTags = <<>>
    /\ membersBody = <<>>
    /\ tries = DefaultTries /\ statuses = <<200>>
    /\ failAt \in 0..2
    /\ last = NoOutcome
    /\ issuesBody = NoIssues /\ objects = NoObjects
    /\ \/ /\ instance = NoInstance
          /\ orgsBody \in OrgsBodies
          /\ pages \in [OrgIds -> ShortChains]
          /\ \A o \in OrgIds : Listed(o) \/ pages[o] = OnePage
          /\ projectBody = "data"
       \/ /\ \E o \in OrgIds, chain \in ShortChains :
                /\ instance = Organization(o, 1, TRUE)
                /\ pages = [x \in OrgIds |-> IF x = o THEN chain ELSE OnePage]
          /\ orgsBody = NoOrgs
          /\ projectBody \in {"data", "nodata"}

\* client.projects.filter(tags, **kwargs), org.projects.filter(tags, **kwargs)
Filter ==
    \E t \in 1..Len(TagChoices), k \in 1..Len(KwargsChoices) :
        /\ last' = Outcome("filter", 0, FilterParams(TagChoices[t], KwargsChoices[k]),
                           PM_filter(instance, TagChoices[t], KwargsChoices[k], <<>>))
        /\ UNCHANGED <<server, config, statuses, failAt, objects, instance, cachedTags>>

NextProjects == All \/ Filter \/ ProjectsGet

SpecProjects == InitProjects /\ [][NextProjects]_vars

Malformed(params) ==
    Has(params, "tags") /\ \E i \in 1..Len(params["tags"]) :
        LET tag == params["tags"][i]
        IN  ~Has(tag, "key") \/ ~Has(tag, "value") \/ DOMAIN tag # {"key", "value"}

\* C18: when a tag criterion passed to all / filter / get of a ProjectManager
\* is malformed (no 'key', no 'value', or a field besides them), the call
\* raises SnykError and has made no request, on the manager of an
\* organization and on the unbound one alike.
C18_MalformedTagRaisesBeforeAnyRequest ==
    (last.op \in {"all", "filter", "projects.get"} /\ Malformed(last.params)) =>
        /\ last.raised = "SnykError"
        /\ last.calls = <<>>

\* The part of the above that the code keeps: the manager of an organization.
C18_ScopedMalformedTag ==
    (last.op \in {"all", "filter", "projects.get"} /\ Malformed(last.params)
        /\ instance # NoInstance) =>
        /\ last.raised = "SnykError"
        /\ last.calls = <<>>

\* The organizations GET orgs lists, as organizations.all() returns them.
ListedOrgs ==
    [k \in 1..Len(orgsBody.orgs) |->
        Organization(orgsBody.orgs[k].id, orgsBody.orgs[k].name, TRUE)]

ProjectsUnder(org) ==
    LET ids == ChainData(org.id)
    IN  [k \in 1..Len(ids) |-> Project(ids[k], org)]

\* C19: every Project that all(), filter() or get() of a ProjectManager
\* returns carries as organization the Organization instance it was fetched
\* under, whatever its page: the bound organization on the manager of an
\* organization, the organization of organizations.all() whose collection it
\* is in on the unbound manager; none carries no organization.
C19_OrganizationBackReference ==
    (last.op \in {"all", "filter", "projects.get"} /\ last.raised = "none") =>
        IF last.op = "projects.get"
        THEN last.value # None =>
             /\ last.value.organization # NoInstance
             /\ IF instance # NoInstance
                THEN last.value.organization = instance
                ELSE \E k \in 1..Len(ListedOrgs) :
                        /\ last.value \in { ProjectsUnder(ListedOrgs[k])[j] :
                                              j \in 1..Len(ProjectsUnder(ListedOrgs[k])) }
                        /\ \A h \in 1..(k - 1) :
                               \A j \in 1..Len(ProjectsUnder(ListedOrgs[h])) :
                                   ProjectsUnder(ListedOrgs[h])[j].id # last.id
        ELSE /\ \A j \in 1..Len(last.value) : last.value[j].organization # NoInstance
             /\ IF instance # NoInstance
                THEN last.value = ProjectsUnder(instance)
                ELSE last.value =
                         Flatten([k \in 1..Len(ListedOrgs) |-> ProjectsUnder(ListedOrgs[k])])

\* The unbound manager returns the projects of two organizations, one of
\* them from a second page.
C19_Witness ==
    /\ last.op = "all" /\ last.raised = "none" /\ instance = NoInstance
    /\ Len(last.value) = 3
    /\ last.value[1].organization # last.value[3].organization
    /\ Len(last.calls) = 4


-----------------------------------------------------------------------------
(* ProjectManager.update (snyk/managers.py) *)

\* The keyword arguments of update that go to data.attributes, in the order
\* the method looks at them, and the one that goes to data.relationships.
AttributeFields == <<"tags", "environment", "business_criticality", "lifecycle", "test_frequency">>
ListFields == {"tags", "environment", "business_criticality", "lifecycle"}
UpdateFields == ListFields \cup {"test_frequency", "owner_id"}

\* args holds the keyword arguments the caller supplied; the others are at
\* their default, None. `if tags:` holds of a supplied value that is not empty.
Truthy(field, v) == IF field \in ListFields THEN v # <<>> ELSE v # ""

Given(args, field) == Has(args, field) /\ Truthy(field, args[field])

\* (mutant) the field is sent whether or not it was supplied
SetAttribute_Always(attributes, args, field) ==
    Put(attributes, field, IF Has(args, field) THEN args[field] ELSE None)

\* if <field>: body["data"]["attributes"]["<field>"] = <field>
SetAttribute(attributes, args, field) ==
    IF Given(args, field) THEN Put(attributes, field, args[field]) ELSE attributes

RECURSIVE Attributes(_, _, _)
Attributes(attributes, args, fields) ==
    IF fields = <<>>
    THEN attributes
    ELSE Attributes(SetAttribute(attributes, args, Head(fields)), args, Tail(fields))

Relationships(args) ==
    IF Given(args, "owner_id")
    THEN [owner |-> [data |-> [id |-> args["owner_id"], type |-> "user"]]]
    ELSE EmptyDict

UpdateBody(id, args) ==
    [data |-> [id |-> id,
               attributes |-> Attributes(EmptyDict, args, AttributeFields),
               relationships |-> Relationships(args),
               type |-> "project"]]

\* client.patch(path, body, params=params)
PatchCallWith(path, body, params) ==
    [verb |-> "patch", path |-> path, body |-> body, params |-> params]

\* What update leaves: its outcome, and the instance of the manager.
WithInstance(out, inst) ==
    [raised |-> out.raised, value |-> out.value, calls |-> out.calls, instance |-> inst]

\* ProjectManager.update: an unbound manager first binds itself to the
\* organization of the project that get(id) finds.
PM_update(inst, id, params, args, cs) ==
    LET got == IF inst = NoInstance
               THEN PM_get(inst, id, EmptyDict, cs)
               ELSE Returned(<<>>, cs)
    IN  IF got.raised # "none"
        THEN WithInstance(got, inst)
        ELSE
        LET inst1 == IF inst = NoInstance THEN got.value.organization ELSE inst
            path == ProjectPath(inst1.id, id)
            cs1 == Append(got.calls, PatchCallWith(path, UpdateBody(id, args), params))
        IN  IF ClientRaises(cs1)
            THEN WithInstance(Raised("SnykError", cs1), inst1)
            ELSE WithInstance(Returned(TRUE, cs1), inst1)

-----------------------------------------------------------------------------
(* Updates of a project: client.projects.update, org.projects.update *)

\* The values a caller supplies: ones that hold something, or, for all six
\* arguments at once, empty ones.
ArgValue(field, empty) ==
    IF field \in ListFields
    THEN (IF empty THEN <<>> ELSE <<field>>)
    ELSE (IF empty THEN "" ELSE field)

Updated(id, params, args, out) ==
    [op |-> "update", id |-> id, params |-> params, args |-> args,
     raised |-> out.raised, value |-> out.value, calls |-> out.calls]

\* The collection of organization x: one page, of min(x, MaxPerPage) projects.
PagesOf(x) ==
    [i \in 1..1 |-> [hasData |-> TRUE,
                     n |-> IF x < MaxPerPage THEN x ELSE MaxPerPage,
                     hasNext |-> FALSE]]

InitUpdate ==
    /\ depBodies = NoDeps
    /\ dictBody = <<>> /\ cachedTags = <<>>
    /\ membersBody = <<>> /\ projectBody = "data"
    /\ tries = DefaultTries /\ statuses = <<200>>
    /\ pages = [x \in OrgIds |-> PagesOf(x)]
    /\ failAt \in 0..3
    /\ last = NoOutcome
    /\ issuesBody = NoIssues /\ objects = NoObjects
    /\ \/ /\ instance = NoInstance
          /\ \/ orgsBody = [hasOrgs |-> TRUE, orgs |-> <<>>]
             \/ \E o \in OrgIds : orgsBody = [hasOrgs |-> TRUE, orgs |-> OrgData(<<o>>)]
       \/ /\ instance = Organization(1, 1, TRUE)
          /\ orgsBody = NoOrgs

Update ==
    \E id \in 1..MaxPerPage, supplied \in SUBSET UpdateFields, empty \in BOOLEAN :
        /\ empty => supplied = UpdateFields
        /\ LET args == [f \in supplied |-> ArgValue(f, empty)]
               params == [limit |-> 10]
               out == PM_update(instance, id, params, args, <<>>)
           IN  /\ last' = Updated(id, params, args, out)
               /\ instance' = out.instance
               /\ UNCHANGED <<server, config, statuses, failAt, objects, cachedTags>>

NextUpdate == Update

SpecUpdate == InitUpdate /\ [][NextUpdate]_vars

IsPatch(call) == call.verb = "patch"

\* C20: the PATCH of ProjectManager.update has in data.attributes no field
\* (tags, environment, business_criticality, lifecycle, test_frequency) that
\* the caller did not supply, and each one there carries the caller's value;
\* data.relationships has an owner only when owner_id was supplied, and
\* nothing else.
C20_OnlySuppliedFieldsSent ==
    (last.op = "update") =>
        \A k \in 1..Len(last.calls) :
            IsPatch(last.calls[k]) =>
                LET data == last.calls[k].body.data
                IN  /\ \A f \in DOMAIN data.attributes :
                           /\ f \in UpdateFields \ {"owner_id"}
                           /\ Has(last.args, f)
                           /\ data.attributes[f] = last.args[f]
                    /\ DOMAIN data.relationships \subseteq {"owner"}
                    /\ Has(data.relationships, "owner") =>
                           /\ Has(last.args, "owner_id")
                           /\ data.relationships["owner"].data.id = last.args["owner_id"]

\* Two of the six arguments are supplied, on the unbound manager.
C20_Witness ==
    /\ last.op = "update" /\ last.raised = "none"
    /\ DOMAIN last.args = {"tags", "owner_id"}
    /\ Len(last.calls) = 3 /\ IsPatch(last.calls[3])
    /\ DOMAIN last.calls[3].body.data.attributes = {"tags"}
    /\ Has(last.calls[3].body.data.relationships, "owner")


-----------------------------------------------------------------------------
(* The requests of a lookup on the manager of an organization *)

\* C21: get(id) on the ProjectManager of an organization makes one request,
\* for orgs/<org id>/projects/<id>, and none for the collection of projects
\* (none at all when it rejects the caller's tags).
C21_ScopedGetIsOneDirectRequest ==
    (last.op = "projects.get" /\ instance # NoInstance) =>
        /\ Len(last.calls) = (IF Malformed(last.params) THEN 0 ELSE 1)
        /\ \A k \in 1..Len(last.calls) :
               /\ last.calls[k].verb = "get"
               /\ last.calls[k].path = ProjectPath(instance.id, last.id)
               /\ last.calls[k].path # FirstPath(instance.id)

\* The project is the second of the organization's collection.
C21_Witness ==
    /\ last.op = "projects.get" /\ instance # NoInstance
    /\ last.raised = "none" /\ last.value = Project(2, instance)
    /\ Len(last.calls) = 1


-----------------------------------------------------------------------------
(* The paginated fetches of one organization: org.projects.all(params) and  *)
(* org.dependencies.all()                                                   *)

\* Chains of pages of at most one item each, every shape of a page included.
ThinChains ==
    { ps \in PageChains : \A i \in 1..Len(ps) : ps[i].n <= 1 }

\* Pages of dependencies of one result each, with every total.
ThinDepBodies == { b \in DepBodies : b.n = 1 }

InitPaging ==
    /\ instance = Organization(1, 1, TRUE)
    /\ orgsBody = NoOrgs
    /\ membersBody = <<>> /\ projectBody = "data"
    /\ dictBody = <<>> /\ cachedTags = <<>>
    /\ tries = DefaultTries /\ statuses = <<200>>
    /\ failAt \in 0..MaxPages
    /\ last = NoOutcome
    /\ issuesBody = NoIssues /\ objects = NoObjects
    /\ \/ /\ \E chain \in ThinChains :
                pages = [x \in OrgIds |-> IF x = 1 THEN chain ELSE OnePage]
          /\ depBodies = NoDeps
       \/ /\ pages = [x \in OrgIds |-> OnePage]
          /\ depBodies \in [1..MaxDepPages -> ThinDepBodies]

NextPaging == All \/ DepsAll

SpecPaging == InitPaging /\ [][NextPaging]_vars

\* C22: when the request for a page of a paginated fetch fails (the pages of
\* projects along the next links, the pages of dependencies by number), no
\* request follows it and all() raises the transport's error and returns
\* nothing: the items of the pages fetched before it are not returned.
C22_PageFailureAbortsFetch ==
    (last.op \in {"all", "dependencies.all"} /\ failAt > 0) =>
        /\ Len(last.calls) <= failAt
        /\ Len(last.calls) = failAt =>
               (last.raised = "SnykError" /\ last.value = <<>>)
        /\ (Len(last.calls) < failAt /\ ~Malformed(last.params)) => last.raised = "none"

\* The third page fails after two pages of one project each.
C22_Witness ==
    /\ last.op = "all" /\ failAt = 3 /\ Len(last.calls) = 3
    /\ pages[1][1].hasData /\ pages[1][1].n = 1
    /\ pages[1][2].hasData /\ pages[1][2].n = 1
    /\ last.raised = "SnykError" /\ last.value = <<>>

\* The least p from 1 on with total <= p * 1000
RECURSIVE PagesFor(_, _)
PagesFor(total, p) == IF total <= p * 1000 THEN p ELSE PagesFor(total, p + 1)

\* C29: with no failure, DependencyManager.all() returns after as many
\* requests as the fixed total the server reports asks for, and
\* ProjectManager.all() returns after one request per page of the finite
\* chain of next links, up to the first page with no next link; a page
\* without 'data' is the last one requested, also when it has a next link.
C29_PaginationTerminates ==
    /\ (last.op = "dependencies.all" /\ failAt = 0
          /\ \A p \in DOMAIN depBodies : depBodies[p].total = depBodies[1].total) =>
          /\ last.raised = "none"
          /\ Len(last.calls) = PagesFor(depBodies[1].total, 1)
          /\ Len(last.calls) <= MaxDepPages
    /\ (last.op = "all" /\ failAt = 0 /\ ~Malformed(last.params)) =>
          LET chain == pages[instance.id]
              m == Len(last.calls)
          IN  /\ last.raised = "none"
              /\ m >= 1 /\ m <= Len(chain)
              /\ \A k \in 1..m : last.calls[k].path.page = k
              /\ \A k \in 1..(m - 1) : chain[k].hasData /\ chain[k].hasNext
              /\ ~chain[m].hasData \/ ~chain[m].hasNext

\* The second of three pages has a next link and no 'data'.
C29_Witness ==
    /\ last.op = "all" /\ failAt = 0 /\ last.raised = "none"
    /\ Len(pages[instance.id]) = 3
    /\ ~pages[instance.id][2].hasData /\ pages[instance.id][2].hasNext
    /\ Len(last.calls) = 2


-----------------------------------------------------------------------------
(* What a call leaves behind: the manager's binding, the cached tags *)

\* C23: no operation of a manager changes the instance it is bound to: an
\* unbound project manager stays unbound.
C23_BindingUnchanged == [][instance' = instance]_vars

\* C24: when the PATCH of a tag add or delete raises, the project's cached
\* tag list is as it was before the call.
C24_FailedTagCallLeavesCache ==
    (last.op \in {"tags.add", "tags.delete"} /\ last.raised # "none") =>
        cachedTags = last.before

\* The part of the above that the code keeps: a delete that fails.
C24_FailedDeleteLeavesCache ==
    (last.op = "tags.delete" /\ last.raised # "none") => cachedTags = last.before

\* C27: the list delete(key, value) sends is the cached list without the
\* tags whose key and value both equal the arguments: every other tag is in
\* it, in the cached order, also one that shares only the key or only the
\* value with the arguments.
C27_DeleteRemovesExactMatches ==
    (last.op = "tags.delete") =>
        LET other(tag) == tag # last.arg
        IN  Sent(last.calls[1]) = SelectSeq(last.before, other)


-----------------------------------------------------------------------------
(* The unbound manager against the managers of the organizations *)

\* org.projects.all(params) of the k-th organization of organizations.all()
ScopedAll(k) == PM_all(ListedOrgs[k], last.params, <<>>)

\* C25: on the unbound ProjectManager, all(params) returns what
\* org.projects.all(params) returns for each organization of
\* organizations.all(), concatenated in the order of that list: each project
\* carries its organization, and the requests made for each organization are
\* the ones its own all(params) makes. (It raises when one of them raises.)
C25_UnboundAllIsConcatenation ==
    (last.op \in {"all", "filter"} /\ instance = NoInstance /\ failAt = 0) =>
        LET n == Len(ListedOrgs)
        IN  IF \E k \in 1..n : ScopedAll(k).raised # "none"
            THEN last.raised = "SnykError"
            ELSE /\ last.raised = "none"
                 /\ last.value = Flatten([k \in 1..n |-> ScopedAll(k).value])
                 /\ last.calls =
                        <<PlainGet(OrgsPath)>> \o Flatten([k \in 1..n |-> ScopedAll(k).calls])
                 /\ \A k \in 1..n : \A j \in 1..Len(ScopedAll(k).value) :
                        ScopedAll(k).value[j].organization = ListedOrgs[k]

\* Two organizations are listed, the second before the first, each with
\* projects; the caller passes tags.
C25_Witness ==
    /\ last.op = "all" /\ instance = NoInstance /\ failAt = 0
    /\ Has(last.params, "tags") /\ last.raised = "none"
    /\ Len(ListedOrgs) = 2 /\ ListedOrgs[1].id = 2 /\ ListedOrgs[2].id = 1
    /\ Len(pages[2]) = 2 /\ Len(pages[1]) = 1
    /\ Len(last.value) = 3
    /\ last.value[3].organization = ListedOrgs[2]


-----------------------------------------------------------------------------
(* IssueSetManager (snyk/managers.py) *)

\* (mutant) fromPackages is added and 'from' is left in place
Renamed_Copy(entry) ==
    IF Has(entry, "from") THEN Put(entry, "fromPackages", entry["from"]) ELSE entry

\* data["issues"][key][i]["fromPackages"] = data["issues"][key][i].pop("from")
Renamed(entry) ==
    IF Has(entry, "from")
    THEN Put(Remove(entry, "from"), "fromPackages", entry["from"])
    ELSE entry

ReservedKeys == {"vulnerabilities", "licenses"}

\* IssueSetManager._convert_reserved_words
IS_convert_reserved_words(data) ==
    IF Has(data, "issues")
    THEN [data EXCEPT !["issues"] =
             [key \in DOMAIN data["issues"] |->
                 IF key \in ReservedKeys
                 THEN [i \in 1..Len(data["issues"][key]) |-> Renamed(data["issues"][key][i])]
                 ELSE data["issues"][key]]]
    ELSE data

\* The filters of IssueSetManager.filter, in the order of the dict, and
\* their defaults.
FilterNames == <<"severities", "types", "ignored", "patched">>

DefaultFilters ==
    [severities |-> <<"critical", "high", "medium", "low">>,
     types |-> <<"vuln", "license">>,
     ignored |-> FALSE,
     patched |-> FALSE]

ListFilters == {"severities", "types"}

\* if kwargs.get(filter_name): the keyword is there and its value is not
\* empty, not False
KwargsGet(kwargs, name) ==
    Has(kwargs, name)
        /\ (IF name \in ListFilters THEN kwargs[name] # <<>> ELSE kwargs[name])

RECURSIVE IssueFilters(_, _, _)
IssueFilters(filters, kwargs, names) ==
    IF names = <<>>
    THEN filters
    ELSE IssueFilters(IF KwargsGet(kwargs, Head(names))
                      THEN Put(filters, Head(names), kwargs[Head(names)])
                      ELSE filters,
                      kwargs, Tail(names))

IssuesPath(inst) == [kind |-> "issues", org |-> inst.organization.id, page |-> 0, id |-> inst.id]

\* IssueSetManager.filter: one POST, and the body decoded
IS_filter(inst, kwargs, cs) ==
    LET post_body == [filters |-> IssueFilters(DefaultFilters, kwargs, FilterNames)]
        cs1 == Append(cs, PostCall(IssuesPath(inst), post_body))
    IN  IF ClientRaises(cs1)
        THEN Raised("SnykError", cs1)
        ELSE Returned(IS_convert_reserved_words(issuesBody), cs1)

\* IssueSetManager.all: self.filter()
IS_all(inst, cs) == IS_filter(inst, EmptyDict, cs)

-----------------------------------------------------------------------------
(* The issues of one project: project.issueset.all / filter *)

\* The entries of issues.vulnerabilities and issues.licenses: with and
\* without 'from', and with a fromPackages of their own.
Entries ==
    { [id |-> "a"],
      [id |-> "b", from |-> <<"x", "y">>],
      [id |-> "c", fromPackages |-> <<"z">>],
      [id |-> "d", from |-> <<"x">>, fromPackages |-> <<"z">>] }

EntryLists == UNION { [1..n -> Entries] : n \in 0..MaxEntries }

\* The licenses: none, or one with 'from'.
LicenseLists == { <<>>, <<[id |-> "b", from |-> <<"x", "y">>]>> }

\* issues: each of the two lists may be missing
Issues(hasV, v, hasL, l) ==
    [key \in (IF hasV THEN {"vulnerabilities"} ELSE {}) \cup (IF hasL THEN {"licenses"} ELSE {})
        |-> IF key = "vulnerabilities" THEN v ELSE l]

\* The values a caller passes for a filter: one that is empty or False, and
\* one that is not.
FilterValue(name, falsy) ==
    IF name = "severities" THEN (IF falsy THEN <<>> ELSE <<"high">>)
    ELSE IF name = "types" THEN (IF falsy THEN <<>> ELSE <<"vuln">>)
    ELSE ~falsy

InitIssues ==
    /\ instance = Project(1, Organization(1, 1, TRUE))
    /\ pages = [x \in OrgIds |-> OnePage]
    /\ orgsBody = NoOrgs
    /\ membersBody = <<>> /\ projectBody = "data"
    /\ depBodies = NoDeps
    /\ dictBody = <<>> /\ cachedTags = <<>>
    /\ tries = DefaultTries /\ statuses = <<200>>
    /\ objects = NoObjects
    /\ last = NoOutcome
    /\ \/ failAt \in 0..1 /\ issuesBody = NoIssues
       \/ /\ failAt = 0
          /\ \E hasV \in BOOLEAN, v \in EntryLists, hasL \in BOOLEAN, l \in LicenseLists :
                /\ hasV \/ v = <<>>
                /\ hasL \/ l = <<>>
                /\ issuesBody = [ok |-> TRUE, issues |-> Issues(hasV, v, hasL, l)]

IssuesAll ==
    /\ last' = Invoked("issueset", "issues.all", EmptyDict, IS_all(instance, <<>>))
    /\ UNCHANGED <<server, config, statuses, failAt, objects, instance, cachedTags>>

IssuesFilter ==
    \E supplied \in SUBSET { FilterNames[i] : i \in 1..Len(FilterNames) } :
        \E falsy \in SUBSET supplied :
            LET kwargs == [name \in supplied |-> FilterValue(name, name \in falsy)]
            IN  /\ last' = Invoked("issueset", "issues.filter", kwargs,
                                   IS_filter(instance, kwargs, <<>>))
                /\ UNCHANGED <<server, config, statuses, failAt, objects, instance, cachedTags>>

NextIssues == IssuesAll \/ IssuesFilter

SpecIssues == InitIssues /\ [][NextIssues]_vars

SentFilters == last.calls[1].body.filters

\* C26: IssueSetManager.filter sends one POST whose filters has the four
\* keys severities, types, ignored and patched and no other; a key the caller
\* supplied carries the caller's value, an empty list and False included, and
\* a key the caller did not supply carries its default.
C26_FullFilterReplace ==
    (last.op = "issues.filter") =>
        /\ Len(last.calls) = 1 /\ last.calls[1].verb = "post"
        /\ DOMAIN SentFilters = {"severities", "types", "ignored", "patched"}
        /\ \A name \in DOMAIN SentFilters :
               SentFilters[name] =
                   (IF Has(last.arg, name) THEN last.arg[name] ELSE DefaultFilters[name])

\* The part of the above that the code keeps: the four keys, the defaults of
\* the keys not supplied, and the values supplied that are not empty or False.
C26_TruthyFiltersReplace ==
    (last.op = "issues.filter") =>
        /\ Len(last.calls) = 1 /\ last.calls[1].verb = "post"
        /\ DOMAIN SentFilters = {"severities", "types", "ignored", "patched"}
        /\ \A name \in DOMAIN SentFilters :
               SentFilters[name] =
                   (IF KwargsGet(last.arg, name) THEN last.arg[name] ELSE DefaultFilters[name])

-----------------------------------------------------------------------------
(* The params objects of ProjectManager: which dict each method writes to *)

\* (mutant) copy_params = params
Deepcopy_Alias(ref) == ref

\* copy.deepcopy(params): an object of its own
Deepcopy(ref) == "copy of " \o ref

\* The dict _query was given, after _query: limit, and on the manager of an
\* organization the joined tags (unless one is malformed: the raise comes
\* before) and the two params of a first page. A next page writes nothing:
\* limit is there and next_url is set.
PM_query_params(inst, params) ==
    LET p1 == IF Has(params, "limit") THEN params ELSE Put(params, "limit", DefaultLimit)
    IN  IF inst = NoInstance THEN p1
        ELSE IF Has(p1, "tags") /\ \E i \in 1..Len(p1["tags"]) : ~TagOk(p1["tags"][i])
        THEN p1
        ELSE LET p2 == IF Has(p1, "tags") THEN Put(p1, "tags", TagString(p1["tags"])) ELSE p1
             IN  Put(Put(p2, "meta.latest_issue_counts", "true"), "expand", "target")

\* copy_params of get on the manager of an organization, after get
PM_get_params(params) ==
    LET c1 == IF Has(params, "meta.latest_issue_counts")
              THEN params ELSE Put(params, "meta.latest_issue_counts", "true")
        c2 == IF Has(c1, "expand") THEN c1 ELSE Put(c1, "expand", "target")
        c3 == Remove(c2, "version")
    IN  IF Has(c3, "tags") /\ \E i \in 1..Len(c3["tags"]) : ~TagOk(c3["tags"][i])
        THEN c3
        ELSE IF Has(c3, "tags") THEN Put(c3, "tags", TagString(c3["tags"])) ELSE c3

\* The objects after org.projects.all(params=params) of each organization in
\* turn, up to the one that raises: each works on a copy of the dict of the
\* unbound _query, whose value is params.
RECURSIVE Objects_each(_, _, _, _, _)
Objects_each(h, orgs, ref, params, cs) ==
    IF orgs = <<>>
    THEN h
    ELSE LET h1 == Put(h, Deepcopy(ref), PM_query_params(Head(orgs), params))
             r == PM_all(Head(orgs), params, cs)
         IN  IF r.raised # "none"
             THEN h1
             ELSE Objects_each(h1, Tail(orgs), ref, params, r.calls)

\* The objects after _query(params=<the object ref>)
Objects_query(h, inst, ref) ==
    LET h1 == Put(h, ref, PM_query_params(inst, h[ref]))
    IN  IF inst # NoInstance
        THEN h1
        ELSE LET orgs == OM_all(TRUE, <<>>)
             IN  IF orgs.raised # "none"
                 THEN h1
                 ELSE Objects_each(h1, orgs.value, ref, h1[ref], orgs.calls)

\* The objects after all(params=<the object ref>)
Objects_all(h, inst, ref) ==
    LET copy_params == Deepcopy(ref)
    IN  Objects_query(Put(h, copy_params, h[ref]), inst, copy_params)

\* The objects after filter(tags=<the object ref>, **kwargs): params is a
\* dict made by the call, {**kwargs, "tags": tags} or kwargs itself. The
\* tag list is a value of it, and no method writes into a tag list: _query
\* and get put the joined string under the key "tags" of their dict.
Objects_filter(h, inst, ref, kwargs) ==
    Objects_all(Put(h, "params", FilterParams(h[ref], kwargs)), inst, "params")

\* The objects after get(id, params=<the object ref>)
Objects_get(h, inst, ref) ==
    IF inst # NoInstance
    THEN LET copy_params == Deepcopy(ref)
         IN  Put(h, copy_params, PM_get_params(h[ref]))
    ELSE Objects_all(h, inst, ref)

\* What the caller still sees of the objects: its own and the defaults.
Visible(h) == [ref \in DOMAIN objects |-> h[ref]]

\* A call on a ProjectManager: the object it was given, whether the caller
\* gave any parameter, and the objects before it.
ParamsCall(op, ref, given, out) ==
    [op |-> op, ref |-> ref, given |-> given, before |-> objects,
     raised |-> out.raised, value |-> out.value, calls |-> out.calls]

TwoPages == [i \in 1..2 |-> [hasData |-> TRUE, n |-> 1, hasNext |-> (i = 1)]]

\* The manager of the client or of an organization, collections of two
\* pages, and a caller that keeps either a params dict or a tag list.
InitParams ==
    /\ depBodies = NoDeps
    /\ dictBody = <<>> /\ cachedTags = <<>>
    /\ membersBody = <<>> /\ projectBody = "data"
    /\ tries = DefaultTries /\ statuses = <<200>>
    /\ issuesBody = NoIssues
    /\ failAt \in 0..2
    /\ last = NoOutcome
    /\ pages = [o \in OrgIds |-> TwoPages]
    /\ \/ instance = NoInstance /\ orgsBody \in OrgsBodies
       \/ instance = Organization(1, 1, TRUE) /\ orgsBody = NoOrgs
    /\ \/ \E c \in 1..Len(ParamChoices) :
            objects = [NoObjects EXCEPT !.caller_params = ParamChoices[c]]
       \/ \E t \in 1..Len(TagChoices) :
            objects = [NoObjects EXCEPT !.caller_tags = TagChoices[t]]

\* manager.all(params), manager.all()
ParamsAll ==
    \E ref \in {"caller_params", "all_params"} :
        /\ last' = ParamsCall("params.all", ref, ref = "caller_params",
                              PM_all(instance, objects[ref], <<>>))
        /\ objects' = Visible(Objects_all(objects, instance, ref))
        /\ UNCHANGED <<server, config, statuses, failAt, instance, cachedTags>>

\* manager.filter(tags, **kwargs), manager.filter(**kwargs)
ParamsFilter ==
    \E ref \in {"caller_tags", "filter_tags"}, k \in 1..Len(KwargsChoices) :
        /\ last' = ParamsCall("params.filter", ref,
                              ref = "caller_tags" \/ KwargsChoices[k] # EmptyDict,
                              PM_filter(instance, objects[ref], KwargsChoices[k], <<>>))
        /\ objects' = Visible(Objects_filter(objects, instance, ref, KwargsChoices[k]))
        /\ UNCHANGED <<server, config, statuses, failAt, instance, cachedTags>>

\* manager.get(id, params), manager.get(id)
ParamsGet ==
    \E ref \in {"caller_params", "get_params"}, id \in 1..MaxPerPage :
        /\ last' = ParamsCall("params.get", ref, ref = "caller_params",
                              PM_get(instance, id, objects[ref], <<>>))
        /\ objects' = Visible(Objects_get(objects, instance, ref))
        /\ UNCHANGED <<server, config, statuses, failAt, instance, cachedTags>>

NextParams == ParamsAll \/ ParamsFilter \/ ParamsGet

SpecParams == InitParams /\ [][NextParams]_vars

\* The params a request carries when the caller gave none: what _query adds
\* to an empty dict, and what get adds to one.
QueryOwnParams == PM_query_params(Organization(1, 1, TRUE), EmptyDict)

GetOwnParams == PM_get_params(EmptyDict)

\* C28: all(params), filter(tags, **kwargs) and get(id, params) of a
\* ProjectManager leave the caller's params dict and tag list and the default
\* values of their parameters as they were: every call leaves the objects as
\* it found them, the defaults stay empty, and a call made with no params
\* sends only the params the method adds to an empty dict.
C28_CallerParamsUntouched ==
    /\ objects.all_params = EmptyDict /\ objects.get_params = EmptyDict
    /\ objects.query_params = EmptyDict /\ objects.filter_tags = <<>>
    /\ (last.op \in {"params.all", "params.filter", "params.get"}) =>
           /\ objects = last.before
           /\ ~last.given =>
                  \A k \in 1..Len(last.calls) :
                      Has(last.calls[k], "params") =>
                          last.calls[k].params =
                              (IF last.op = "params.get" /\ instance # NoInstance
                               THEN GetOwnParams ELSE QueryOwnParams)

\* all(params) with the caller's dict of two well-formed tags, on the manager
\* of an organization: both pages are fetched with the tags joined, and the
\* dict still holds the list.
C28_Witness ==
    /\ last.op = "params.all" /\ last.ref = "caller_params"
    /\ instance # NoInstance /\ last.raised = "none"
    /\ Len(last.calls) = 2
    /\ objects.caller_params = [tags |-> <<Tag("k1", "v1"), Tag("k2", "v2")>>]
    /\ last.calls[1].params["tags"] = TagString(objects.caller_params["tags"])
    /\ Has(last.calls[1].params, "limit")

\* A call with no params on the unbound manager, after which the requests
\* for the projects carry the method's own params only.
C28_WitnessDefault ==
    /\ last.op = "params.all" /\ last.ref = "all_params"
    /\ instance = NoInstance /\ last.raised = "none"
    /\ Len(last.calls) = 5
    /\ last.calls[2].params = QueryOwnParams

=============================================================================
